---- MODULE Spec2Model ----
(***************************************************************************)
(* TensorflowConverter (mace/python/tools/converter_tool/                  *)
(* tensorflow_converter.py): one conversion pass over a frozen TensorFlow  *)
(* graph.  run() walks the graph's operations, dispatches each to its      *)
(* converter, emits the constants that were not folded, rewrites the       *)
(* boundary tensor names and returns the NetDef.                           *)
(*                                                                         *)
(* Strings the code cuts or searches (op names, tensor names) are          *)
(* sequences of one-character strings; strings it only copies or compares  *)
(* whole (op types, argument names) are TLA+ strings.                      *)
(***************************************************************************)
EXTENDS Integers, Sequences, FiniteSets, TLC

VARIABLES
    tf_graph,        \* self._tf_graph.get_operations(): the source operations, in order
    option,          \* self._option: [input_nodes, output_nodes], sets of node names
    mace_net_def,    \* self._mace_net_def: [op, tensors]
    skip_tensor,     \* self._skip_tensor
    evaluated,       \* ghost: the tensor names a converter has called .eval() on
    pc,              \* where run() stands: "ops", "rewrite", "done", "failed"
    idx,             \* convert_ops: position of the next operation of the loop
    error,           \* the exception that ended run(), "" when none
    returned,        \* the NetDefs run() has returned so far, as they were on return
    converters       \* ghost: the TensorflowConverter objects made so far

vars == <<tf_graph, option, mace_net_def, skip_tensor, evaluated, pc, idx, error,
          returned, converters>>

----------------------------------------------------------------------------
(* Python and numpy primitives the converter uses *)

Digits == <<"0", "1", "2", "3", "4", "5", "6", "7", "8", "9">>

MinOf(a, b) == IF a < b THEN a ELSE b

\* s[-2:]
PyLastTwo(s) == IF Len(s) <= 2 THEN s ELSE SubSeq(s, Len(s) - 1, Len(s))

\* s[:-2]
PyDropLastTwo(s) == IF Len(s) <= 2 THEN <<>> ELSE SubSeq(s, 1, Len(s) - 2)

\* s[a:b] for 0 <= a <= b
PySlice(s, a, b) == SubSeq(s, a + 1, MinOf(b, Len(s)))

\* del s[1:]
PyDelFromOne(s) == SubSeq(s, 1, MinOf(1, Len(s)))

\* del s[-1]
PyDelLast(s) == SubSeq(s, 1, Len(s) - 1)

\* str.rfind(ch): the 0-based position of the last ch, -1 when there is none
rfind(s, ch) ==
    IF \E k \in 1..Len(s) : s[k] = ch
    THEN (CHOOSE k \in 1..Len(s) :
              s[k] = ch /\ \A j \in (k + 1)..Len(s) : s[j] # ch) - 1
    ELSE -1

\* ndarray.astype(np.int32) of one integer of at most 64 bits not far outside
\* the int32 range: wraps modulo 2^32 (2^32 is written 2 * 2147483647 + 2,
\* the largest literal the model checker reads being 2^31 - 1)
AsInt32(v) ==
    IF v > 2147483647 THEN ((v - 2147483647) - 2147483647) - 2
    ELSE IF v < -2147483647 - 1 THEN ((v + 2147483647) + 2147483647) + 2
    ELSE v

\* ndarray.astype(np.float32) of one integer: exact up to 2^24, then the
\* spacing of float32 doubles (even values up to 2^25 are exact)
AsFloat32(v) ==
    IF v >= -16777216 /\ v <= 16777216 THEN v ELSE 2 * (v \div 2)

MapSeq(s, F(_)) == [k \in 1..Len(s) |-> F(s[k])]

\* math.sqrt on the values the model's variances take (perfect squares)
Sqrt(v) == CHOOSE r \in 0..v : r * r = v

----------------------------------------------------------------------------
(* The TensorFlow side: operations, tensors, constant evaluation *)

\* tf.Tensor.name: "<op name>:<output index>"
TensorName(op_name, k) == op_name \o <<":", Digits[k + 1]>>

NoValue == [dims |-> <<>>, flat |-> <<>>]

NoAttr ==
    [padding |-> "", strides |-> <<>>, has_dilations |-> FALSE,
     dilations |-> <<>>, ksize |-> <<>>, epsilon |-> 0,
     align_corners |-> FALSE, block_size |-> 0, dtype |-> ""]

\* a tf.Operation with n_out outputs of static shape `shape`
TfOp(name, type, inputs, n_out, shape, attr) ==
    [name |-> name, type |-> type, inputs |-> inputs,
     outputs |-> [k \in 1..n_out |->
                     [name |-> TensorName(name, k - 1), shape |-> shape]],
     attr |-> attr, value |-> NoValue]

\* a Const operation: one output, its dtype attribute and its value
TfConst(name, dtype, dims, flat) ==
    [name |-> name, type |-> "Const", inputs |-> <<>>,
     outputs |-> <<[name |-> TensorName(name, 0), shape |-> dims]>>,
     attr |-> [NoAttr EXCEPT !.dtype = dtype],
     value |-> [dims |-> dims, flat |-> flat]]

\* tensor.op: the operation that produces tensor t
ProducerOf(g, t) ==
    g[CHOOSE k \in 1..Len(g) :
          \E j \in 1..Len(g[k].outputs) : g[k].outputs[j].name = t]

\* tensor.shape.as_list()
ShapeOf(g, t) ==
    LET p == ProducerOf(g, t)
        j == CHOOSE j \in 1..Len(p.outputs) : p.outputs[j].name = t
    IN  p.outputs[j].shape

\* tensor.eval(): the value of a tensor a Const operation produces
Eval(g, t) == ProducerOf(g, t).value

----------------------------------------------------------------------------
(* The MACE side: enum values, arguments, operators, tensors *)

PaddingMode == [VALID |-> 0, SAME |-> 1, FULL |-> 2]
PoolingType == [AVG |-> 1, MAX |-> 2]
DataFormat == [NHWC |-> 0, NCHW |-> 1]
EltwiseType ==
    [SUM |-> 0, SUB |-> 1, PROD |-> 2, DIV |-> 3, MIN |-> 4, MAX |-> 5,
     NEG |-> 6, ABS |-> 7, SQR_DIFF |-> 8, POW |-> 9]

padding_mode == [VALID |-> PaddingMode.VALID, SAME |-> PaddingMode.SAME,
                 FULL |-> PaddingMode.FULL]

pooling_type_mode == [AvgPool |-> PoolingType.AVG, MaxPool |-> PoolingType.MAX]

eltwise_type ==
    [Add |-> EltwiseType.SUM, Sub |-> EltwiseType.SUB, Mul |-> EltwiseType.PROD,
     Div |-> EltwiseType.DIV, Min |-> EltwiseType.MIN, Max |-> EltwiseType.MAX,
     Neg |-> EltwiseType.NEG, Abs |-> EltwiseType.ABS,
     RealDiv |-> EltwiseType.DIV, SquaredDifference |-> EltwiseType.SQR_DIFF,
     Pow |-> EltwiseType.POW]

activation_type ==
    [Relu |-> "RELU", Relu6 |-> "RELUX", Tanh |-> "TANH", Sigmoid |-> "SIGMOID"]

\* a mace_pb2.Argument with only its name set
Arg(name) == [name |-> name, i |-> 0, f |-> 0, s |-> "", ints |-> <<>>]
ArgI(name, v) == [Arg(name) EXCEPT !.i = v]
ArgS(name, v) == [Arg(name) EXCEPT !.s = v]
ArgF(name, v) == [Arg(name) EXCEPT !.f = v]
ArgInts(name, v) == [Arg(name) EXCEPT !.ints = v]

\* a mace_pb2.TensorProto as tensors.add() leaves it, with name and dims set
NewTensor(name, dims) ==
    [name |-> name, dims |-> dims, data_type |-> "DT_INVALID",
     float_data |-> <<>>, int32_data |-> <<>>]

EmptyNetDef == [op |-> <<>>, tensors |-> <<>>]

\* the converter's mutable state while an operation is converted
ConvState(net, skip, ev) == [net |-> net, skip |-> skip, ev |-> ev, err |-> ""]

\* mace_check(condition, msg): raises when the condition is false
mace_check(st, condition, msg) == IF condition THEN st ELSE [st EXCEPT !.err = msg]

\* self._mace_net_def.op.add() followed by the assignments made to it
AddOp(st, op) == [st EXCEPT !.net.op = Append(@, op)]

Skip(st, names) == [st EXCEPT !.skip = @ \cup names]

Evaluated(st, names) == [st EXCEPT !.ev = @ \cup names]

----------------------------------------------------------------------------
(* The converters *)

\* get_scope with find in the place of rfind: the name up to its first slash
get_scope_first_slash(tensor_name) ==
    IF \E k \in 1..Len(tensor_name) : tensor_name[k] = "/"
    THEN SubSeq(tensor_name, 1,
                (CHOOSE k \in 1..Len(tensor_name) :
                     tensor_name[k] = "/"
                     /\ \A j \in 1..(k - 1) : tensor_name[j] # "/") - 1)
    ELSE tensor_name

get_scope(tensor_name) ==
    LET i == rfind(tensor_name, "/")
    IN  IF i = -1 THEN tensor_name ELSE SubSeq(tensor_name, 1, i)

add_tensor(st, name, shape, data_type, value) ==
    [st EXCEPT !.net.tensors =
        Append(@, [NewTensor(name, shape) EXCEPT
                      !.data_type = data_type, !.float_data = value.flat])]

convert_nop(g, tf_op, st) == st

\* the operator convert_general_op adds, before its caller changes it
general_op(tf_op) ==
    [name |-> tf_op.name,
     type |-> tf_op.type,
     input |-> tf_op.inputs,
     output |-> [k \in 1..Len(tf_op.outputs) |-> tf_op.outputs[k].name],
     output_shape |-> [k \in 1..Len(tf_op.outputs) |-> tf_op.outputs[k].shape],
     arg |-> <<ArgI("mace_data_format_str", DataFormat.NHWC)>>]

convert_general_op(g, tf_op, st) == AddOp(st, general_op(tf_op))

\* convert_identity without its assignment of the type
convert_identity_keep_type(g, tf_op, st) == AddOp(st, general_op(tf_op))

convert_identity(g, tf_op, st) ==
    AddOp(st, [general_op(tf_op) EXCEPT !.type = "Identity"])

convert_conv2d(g, tf_op, st) ==
    LET op == general_op(tf_op)
        type == IF tf_op.type = "DepthwiseConv2dNative" THEN "DepthwiseConv2d"
                ELSE IF tf_op.type = "Conv2DBackpropInput" THEN "Deconv2D"
                ELSE "Conv2D"
        base == <<ArgI("mace_padding_str", padding_mode[tf_op.attr.padding]),
                  ArgInts("mace_strides_str", PySlice(tf_op.attr.strides, 1, 3))>>
        dilation_val == IF tf_op.attr.has_dilations
                        THEN PySlice(tf_op.attr.dilations, 1, 3)
                        ELSE <<1, 1>>
        args == IF type # "Deconv2D"
                THEN Append(base, ArgInts("mace_dilations_str", dilation_val))
                ELSE base
    IN  AddOp(st, [op EXCEPT !.type = type, !.arg = @ \o args])

convert_elementwise(g, tf_op, st) ==
    AddOp(st, [general_op(tf_op) EXCEPT
                  !.type = "Eltwise",
                  !.arg = Append(@, ArgI("mace_element_type_str",
                                         eltwise_type[tf_op.type]))])

convert_biasadd(g, tf_op, st) ==
    AddOp(st, [general_op(tf_op) EXCEPT !.type = "BiasAdd"])

convert_add(g, tf_op, st) ==
    IF Len(tf_op.inputs) = 2
    THEN convert_elementwise(g, tf_op, st)
    ELSE AddOp(st, [general_op(tf_op) EXCEPT !.type = "AddN"])

convert_activation(g, tf_op, st) ==
    LET type_arg == ArgS("mace_activation_type_str", activation_type[tf_op.type])
        args == IF tf_op.type = "Relu6"
                THEN <<type_arg, ArgF("mace_activation_max_limit_str", 6)>>
                ELSE <<type_arg>>
    IN  AddOp(st, [general_op(tf_op) EXCEPT
                      !.type = "Activation", !.arg = @ \o args])

convert_fused_batchnorm(g, tf_op, st) ==
    LET op == general_op(tf_op)
        gamma_value == MapSeq(Eval(g, tf_op.inputs[2]).flat, AsFloat32)
        beta_value == MapSeq(Eval(g, tf_op.inputs[3]).flat, AsFloat32)
        mean_value == MapSeq(Eval(g, tf_op.inputs[4]).flat, AsFloat32)
        var_value == MapSeq(Eval(g, tf_op.inputs[5]).flat, AsFloat32)
        epsilon_value == tf_op.attr.epsilon
        scale_name == get_scope(tf_op.name) \o <<"/", "s", "c", "a", "l", "e", ":", "0">>
        offset_name == get_scope(tf_op.name) \o <<"/", "o", "f", "f", "s", "e", "t", ":", "0">>
        scale_value ==
            [dims |-> Eval(g, tf_op.inputs[5]).dims,
             flat |-> [k \in 1..Len(var_value) |->
                          gamma_value[k] \div Sqrt(var_value[k] + epsilon_value)]]
        offset_value ==
            [dims |-> scale_value.dims,
             flat |-> [k \in 1..Len(mean_value) |->
                          (-mean_value[k] * scale_value.flat[k]) + beta_value[k]]]
        st1 == Evaluated(AddOp(st, [op EXCEPT !.type = "FoldedBatchNorm"]),
                         {tf_op.inputs[k] : k \in 2..5})
        st2 == add_tensor(st1, scale_name, scale_value.dims, "DT_FLOAT", scale_value)
        st3 == add_tensor(st2, offset_name, offset_value.dims, "DT_FLOAT", offset_value)
        st4 == Skip(st3, {tf_op.inputs[k] : k \in 2..Len(tf_op.inputs)})
        n == Len(st4.net.op)
    IN  [st4 EXCEPT
            !.net.op[n].input = PyDelFromOne(@) \o <<scale_name, offset_name>>,
            !.net.op[n].output = PyDelFromOne(@),
            !.net.op[n].output_shape = PyDelFromOne(@)]

convert_pooling(g, tf_op, st) ==
    AddOp(st, [general_op(tf_op) EXCEPT
        !.type = "Pooling",
        !.arg = @ \o
            <<ArgI("mace_pooling_type_str", pooling_type_mode[tf_op.type]),
              ArgI("mace_padding_str", padding_mode[tf_op.attr.padding]),
              ArgInts("mace_strides_str", PySlice(tf_op.attr.strides, 1, 3)),
              ArgInts("mace_kernel_str", PySlice(tf_op.attr.ksize, 1, 3))>>])

convert_softmax(g, tf_op, st) ==
    AddOp(st, [general_op(tf_op) EXCEPT !.type = "Softmax"])

convert_resize_bilinear(g, tf_op, st) ==
    LET size_value == MapSeq(Eval(g, tf_op.inputs[2]).flat, AsInt32)
        op == [general_op(tf_op) EXCEPT
                  !.type = "ResizeBilinear",
                  !.input = PyDelFromOne(@),
                  !.arg = @ \o
                      <<ArgInts("mace_resize_size_str", size_value),
                        ArgI("mace_align_corners_str",
                             IF tf_op.attr.align_corners THEN 1 ELSE 0)>>]
    IN  Skip(Evaluated(AddOp(st, op), {tf_op.inputs[2]}), {tf_op.inputs[2]})

convert_space_batch(g, tf_op, st) ==
    LET size_value == MapSeq(Eval(g, tf_op.inputs[2]).flat, AsInt32)
        crops_or_paddings_value == MapSeq(Eval(g, tf_op.inputs[3]).flat, AsInt32)
        b2s == tf_op.type = "BatchToSpaceND"
        op == [general_op(tf_op) EXCEPT
                  !.type = IF b2s THEN "BatchToSpaceND" ELSE "SpaceToBatchND",
                  !.input = PyDelFromOne(@),
                  !.arg = @ \o
                      <<ArgInts("mace_space_batch_block_shape_str", size_value),
                        ArgInts(IF b2s THEN "mace_batch_to_space_crops_str"
                                       ELSE "mace_paddings_str",
                                crops_or_paddings_value)>>]
    IN  Skip(Evaluated(AddOp(st, op), {tf_op.inputs[2], tf_op.inputs[3]}),
             {tf_op.inputs[2], tf_op.inputs[3]})

convert_space_depth(g, tf_op, st) ==
    AddOp(st, [general_op(tf_op) EXCEPT
        !.type = IF tf_op.type = "SpaceToDepth" THEN "SpaceToDepth"
                                                ELSE "DepthToSpace",
        !.arg = Append(@, ArgI("mace_space_depth_block_size_str",
                               tf_op.attr.block_size))])

convert_pad(g, tf_op, st) ==
    LET paddings_value == MapSeq(Eval(g, tf_op.inputs[2]).flat, AsInt32)
        three == Len(tf_op.inputs) = 3
        op == [general_op(tf_op) EXCEPT
                  !.type = "Pad",
                  !.input = PyDelFromOne(@),
                  !.arg = @ \o <<ArgInts("mace_paddings_str", paddings_value)>> \o
                      (IF three
                       THEN <<ArgI("mace_constant_value_str",
                                   AsInt32(Eval(g, tf_op.inputs[3]).flat[1]))>>
                       ELSE <<>>)]
        used == {tf_op.inputs[2]} \cup (IF three THEN {tf_op.inputs[3]} ELSE {})
    IN  Skip(Evaluated(AddOp(st, op), used), used)

\* convert_concat without the normalization of a negative axis
convert_concat_no_normalize(g, tf_op, st) ==
    LET last == tf_op.inputs[Len(tf_op.inputs)]
        axis == AsInt32(Eval(g, last).flat[1])
        op == [general_op(tf_op) EXCEPT
                  !.type = "Concat",
                  !.input = PyDelLast(@),
                  !.arg = Append(@, ArgI("mace_axis_str", axis))]
        st1 == mace_check(Evaluated(AddOp(st, op), {last}), axis = 3,
                          "only support concat at channel dimension")
    IN  IF st1.err # "" THEN st1 ELSE Skip(st1, {last})

convert_concat(g, tf_op, st) ==
    LET last == tf_op.inputs[Len(tf_op.inputs)]
        a == AsInt32(Eval(g, last).flat[1])
        axis == IF a < 0 THEN 4 + a ELSE a
        op == [general_op(tf_op) EXCEPT
                  !.type = "Concat",
                  !.input = PyDelLast(@),
                  !.arg = Append(@, ArgI("mace_axis_str", axis))]
        st1 == mace_check(Evaluated(AddOp(st, op), {last}), axis = 3,
                          "only support concat at channel dimension")
    IN  IF st1.err # "" THEN st1 ELSE Skip(st1, {last})

convert_matmul(g, tf_op, st) ==
    AddOp(st, [general_op(tf_op) EXCEPT !.type = "MatMul"])

\* convert_reshape without the replacement of -1 by 1
convert_reshape_keep_minus_one(g, tf_op, st) ==
    LET second == ProducerOf(g, tf_op.inputs[2])
        is_const == second.type = "Const"
        shape_value ==
            IF is_const
            THEN MapSeq(Eval(g, tf_op.inputs[2]).flat, AsInt32)
            ELSE IF second.type = "Shape"
            THEN ShapeOf(g, second.inputs[1])
            ELSE <<>>
        op == [general_op(tf_op) EXCEPT
                  !.type = "Reshape",
                  !.input = PyDelFromOne(@),
                  !.arg = Append(@, ArgInts("mace_shape_str", shape_value))]
        st1 == AddOp(st, op)
    IN  IF is_const
        THEN Skip(Evaluated(st1, {tf_op.inputs[2]}),
                  {tf_op.inputs[Len(tf_op.inputs)]})
        ELSE st1

convert_reshape(g, tf_op, st) ==
    LET second == ProducerOf(g, tf_op.inputs[2])
        is_const == second.type = "Const"
        raw == MapSeq(Eval(g, tf_op.inputs[2]).flat, AsInt32)
        shape_value ==
            IF is_const
            THEN [k \in 1..Len(raw) |-> IF raw[k] = -1 THEN 1 ELSE raw[k]]
            ELSE IF second.type = "Shape"
            THEN ShapeOf(g, second.inputs[1])
            ELSE <<>>
        op == [general_op(tf_op) EXCEPT
                  !.type = "Reshape",
                  !.input = PyDelFromOne(@),
                  !.arg = Append(@, ArgInts("mace_shape_str", shape_value))]
        st1 == AddOp(st, op)
    IN  IF is_const
        THEN Skip(Evaluated(st1, {tf_op.inputs[2]}),
                  {tf_op.inputs[Len(tf_op.inputs)]})
        ELSE st1

\* convert_transpose without its check of the permutation
convert_transpose_unchecked(g, tf_op, st) ==
    LET op == [general_op(tf_op) EXCEPT
                  !.type = "Identity", !.input = PyDelFromOne(@)]
    IN  Skip(AddOp(Evaluated(st, {tf_op.inputs[2]}), op), {tf_op.inputs[2]})

convert_transpose(g, tf_op, st) ==
    LET perm == MapSeq(Eval(g, tf_op.inputs[2]).flat, AsInt32)
        ordered == \A k \in 1..(Len(perm) - 1) : perm[k] <= perm[k + 1]
        st1 == mace_check(Evaluated(st, {tf_op.inputs[2]}), ordered,
                          "Transpose not supported yet")
        op == [general_op(tf_op) EXCEPT
                  !.type = "Identity", !.input = PyDelFromOne(@)]
    IN  IF st1.err # "" THEN st1 ELSE Skip(AddOp(st1, op), {tf_op.inputs[2]})

\* reduce_dims[0] == 1 and reduce_dims[1] == 2, with Python's short circuit:
\* "IndexError" when an index it reads does not exist, else "True" or "False"
mean_dims_check(reduce_dims) ==
    IF reduce_dims.dims = <<>> \/ Len(reduce_dims.flat) = 0 THEN "IndexError"
    ELSE IF reduce_dims.flat[1] # 1 THEN "False"
    ELSE IF Len(reduce_dims.flat) < 2 THEN "IndexError"
    ELSE IF reduce_dims.flat[2] = 2 THEN "True" ELSE "False"

convert_mean(g, tf_op, st) ==
    LET reduce_dims == Eval(g, tf_op.inputs[2])
        checked == mean_dims_check(reduce_dims)
        op0 == [general_op(tf_op) EXCEPT !.input = PyDelFromOne(@)]
        st0 == Evaluated(AddOp(st, op0), {tf_op.inputs[2]})
        st1 == IF checked = "IndexError"
               THEN [st0 EXCEPT !.err = "IndexError"]
               ELSE mace_check(st0, checked = "True",
                               "Mean only support reduce dim 1, 2")
        n == Len(st1.net.op)
        args == <<ArgI("mace_pooling_type_str", PoolingType.AVG),
                  ArgI("mace_padding_str", PaddingMode.VALID),
                  ArgInts("mace_strides_str", <<1, 1>>),
                  ArgInts("mace_kernel_str",
                          PySlice(ShapeOf(g, tf_op.inputs[1]), 1, 3))>>
    IN  IF st1.err # "" THEN st1
        ELSE Skip([st1 EXCEPT !.net.op[n].type = "Pooling",
                              !.net.op[n].arg = @ \o args],
                  {tf_op.inputs[2]})

----------------------------------------------------------------------------
(* run() and its three passes *)

\* the keys of self._op_converters
op_converter_keys ==
    {"Conv2D", "DepthwiseConv2dNative", "Conv2DBackpropInput", "BiasAdd", "Add",
     "Sub", "Mul", "Div", "Min", "Max", "Neg", "Abs", "RealDiv",
     "SquaredDifference", "Pow", "Relu", "Relu6", "Tanh", "Sigmoid",
     "FusedBatchNorm", "AvgPool", "MaxPool", "Squeeze", "MatMul", "Identity",
     "Reshape", "Shape", "Transpose", "Softmax", "ResizeBilinear", "Placeholder",
     "SpaceToBatchND", "BatchToSpaceND", "DepthToSpace", "SpaceToDepth", "Pad",
     "ConcatV2", "Mean", "Const"}

\* self._op_converters[tf_op.type](tf_op)
op_converters(g, tf_op, st) ==
    LET t == tf_op.type
    IN  CASE t \in {"Conv2D", "DepthwiseConv2dNative", "Conv2DBackpropInput"} ->
                 convert_conv2d(g, tf_op, st)
          [] t = "BiasAdd" -> convert_biasadd(g, tf_op, st)
          [] t = "Add" -> convert_add(g, tf_op, st)
          [] t \in {"Sub", "Mul", "Div", "Min", "Max", "Neg", "Abs", "RealDiv",
                    "SquaredDifference", "Pow"} -> convert_elementwise(g, tf_op, st)
          [] t \in {"Relu", "Relu6", "Tanh", "Sigmoid"} ->
                 convert_activation(g, tf_op, st)
          [] t = "FusedBatchNorm" -> convert_fused_batchnorm(g, tf_op, st)
          [] t \in {"AvgPool", "MaxPool"} -> convert_pooling(g, tf_op, st)
          [] t \in {"Squeeze", "Identity"} -> convert_identity(g, tf_op, st)
          [] t = "MatMul" -> convert_matmul(g, tf_op, st)
          [] t = "Reshape" -> convert_reshape(g, tf_op, st)
          [] t \in {"Shape", "Placeholder", "Const"} -> convert_nop(g, tf_op, st)
          [] t = "Transpose" -> convert_transpose(g, tf_op, st)
          [] t = "Softmax" -> convert_softmax(g, tf_op, st)
          [] t = "ResizeBilinear" -> convert_resize_bilinear(g, tf_op, st)
          [] t \in {"SpaceToBatchND", "BatchToSpaceND"} ->
                 convert_space_batch(g, tf_op, st)
          [] t \in {"DepthToSpace", "SpaceToDepth"} ->
                 convert_space_depth(g, tf_op, st)
          [] t = "Pad" -> convert_pad(g, tf_op, st)
          [] t = "ConcatV2" -> convert_concat(g, tf_op, st)
          [] t = "Mean" -> convert_mean(g, tf_op, st)

\* one iteration of the loop of convert_ops
convert_one(g, tf_op, st) ==
    LET st1 == mace_check(st, tf_op.type \in op_converter_keys,
                          "Mace does not support tensorflow op type")
    IN  IF st1.err # "" THEN st1 ELSE op_converters(g, tf_op, st1)

\* convert_tensors from the k-th operation on; it stops at the first raise
RECURSIVE convert_tensors_from(_, _, _)
convert_tensors_from(g, k, st) ==
    IF k > Len(g) THEN st
    ELSE IF g[k].type # "Const" THEN convert_tensors_from(g, k + 1, st)
    ELSE
        LET tf_op == g[k]
            output_name == tf_op.outputs[1].name
            tf_tensor == tf_op.value
            tensor == NewTensor(output_name, tf_tensor.dims)
            tf_dt == tf_op.attr.dtype
            filled ==
                IF tf_dt = "float32"
                THEN [tensor EXCEPT !.data_type = "DT_FLOAT",
                         !.float_data = MapSeq(tf_tensor.flat, AsFloat32)]
                ELSE IF tf_dt = "int32"
                THEN [tensor EXCEPT !.data_type = "DT_INT32",
                         !.int32_data = MapSeq(tf_tensor.flat, AsInt32)]
                ELSE tensor
            st1 == [st EXCEPT !.net.tensors = Append(@, filled)]
        IN  IF output_name \in st.skip THEN convert_tensors_from(g, k + 1, st)
            ELSE IF tf_dt \notin {"float32", "int32"}
            THEN mace_check(st1, FALSE, "Not supported tensor type")
            ELSE convert_tensors_from(g, k + 1, st1)

convert_tensors(g, st) == convert_tensors_from(g, 1, st)

\* one name of op.input, as replace_input_output_tensor_name leaves it
replace_input(name, opt) ==
    IF PyLastTwo(name) = <<":", "0">>
       /\ (PyDropLastTwo(name) \in opt.input_nodes
           \/ PyDropLastTwo(name) \in opt.output_nodes)
    THEN PyDropLastTwo(name)
    ELSE name

\* replace_output with the condition of the inputs: declared inputs count too
replace_output_as_input(name, opt) ==
    IF PyLastTwo(name) = <<":", "0">>
       /\ (PyDropLastTwo(name) \in opt.input_nodes
           \/ PyDropLastTwo(name) \in opt.output_nodes)
    THEN PyDropLastTwo(name)
    ELSE name

\* one name of op.output, as replace_input_output_tensor_name leaves it
replace_output(name, opt) ==
    IF PyLastTwo(name) = <<":", "0">> /\ PyDropLastTwo(name) \in opt.output_nodes
    THEN PyDropLastTwo(name)
    ELSE name

replace_input_output_tensor_name(net, opt) ==
    [net EXCEPT !.op =
        [k \in 1..Len(net.op) |->
            [net.op[k] EXCEPT
                !.input = [j \in 1..Len(net.op[k].input) |->
                              replace_input(net.op[k].input[j], opt)],
                !.output = [j \in 1..Len(net.op[k].output) |->
                               replace_output(net.op[k].output[j], opt)]]]]

----------------------------------------------------------------------------
(* The frozen graphs and conversion options the converter is run on *)

MaxOps == 2      \* operations of a graph besides its Placeholder and constants
MaxRuns == 2     \* calls of run() followed in one behaviour

X == <<"x">>
DATA == <<"?">>        \* in a variant's inputs: the tensor the operation consumes
XShape == <<1, 7, 7, 16>>

W == <<"w">>
H == <<"h">>
SH == <<"s", "h">>
GAMMA == <<"s", "/", "g">>
BETA == <<"s", "/", "b", "e">>
MOVING_MEAN == <<"s", "/", "m">>
MOVING_VAR == <<"s", "/", "v">>
SCALE == <<"s", "/", "s", "c", "a", "l", "e">>
PERM_ID == <<"p", "i">>
PERM_SW == <<"p", "s">>
AX3 == <<"a", "3">>
AXM1 == <<"a", "m", "1">>
AX1 == <<"a", "1">>
AXM4 == <<"a", "m", "4">>
M12 == <<"m", "1", "2">>
M123 == <<"m", "1", "2", "3">>
M1 == <<"m", "1">>
M21 == <<"m", "2", "1">>
SHP == <<"s", "h", "p">>
SHP64 == <<"s", "h", "p", "l">>
SIZE == <<"s", "z">>
OSZ == <<"o", "s", "z">>
BLK == <<"b", "l", "k">>
CROPS == <<"c", "r">>
PADS == <<"p", "d">>

T0(name) == TensorName(name, 0)

\* the producers a graph draws on: constants, and one Shape of the Placeholder
Catalog ==
    <<TfConst(W, "float32", <<1>>, <<4>>),
      TfConst(H, "int64", <<1>>, <<9>>),
      TfConst(GAMMA, "float32", <<1>>, <<6>>),
      TfConst(BETA, "float32", <<1>>, <<1>>),
      TfConst(MOVING_MEAN, "float32", <<1>>, <<2>>),
      TfConst(MOVING_VAR, "float32", <<1>>, <<4>>),
      TfConst(SCALE, "float32", <<1>>, <<7>>),
      TfConst(PERM_ID, "int32", <<4>>, <<0, 1, 2, 3>>),
      TfConst(PERM_SW, "int32", <<4>>, <<0, 2, 1, 3>>),
      TfConst(AX3, "int32", <<>>, <<3>>),
      TfConst(AXM1, "int32", <<>>, <<-1>>),
      TfConst(AX1, "int32", <<>>, <<1>>),
      TfConst(AXM4, "int32", <<>>, <<-4>>),
      TfConst(M12, "int32", <<2>>, <<1, 2>>),
      TfConst(M123, "int32", <<3>>, <<1, 2, 3>>),
      TfConst(M1, "int32", <<1>>, <<1>>),
      TfConst(M21, "int32", <<2>>, <<2, 1>>),
      TfConst(SHP, "int32", <<2>>, <<-1, 10>>),
      TfConst(SHP64, "int64", <<3>>, <<2, -1, -1>>),
      TfConst(SIZE, "int32", <<2>>, <<14, 14>>),
      TfConst(OSZ, "int32", <<4>>, <<1, 14, 14, 16>>),
      TfConst(BLK, "int32", <<2>>, <<2, 2>>),
      TfConst(CROPS, "int32", <<2, 2>>, <<0, 0, 0, 0>>),
      TfConst(PADS, "int32", <<4, 2>>, <<0, 0, 1, 1, 1, 1, 0, 0>>),
      [TfOp(SH, "Shape", <<T0(X)>>, 1, <<4>>, NoAttr) EXCEPT !.attr.dtype = "int32"]>>

ConvAttr == [NoAttr EXCEPT !.padding = "SAME", !.strides = <<1, 2, 2, 1>>]
DilatedAttr ==
    [NoAttr EXCEPT !.padding = "VALID", !.strides = <<1, 1, 1, 1>>,
                   !.has_dilations = TRUE, !.dilations = <<1, 2, 2, 1>>]
PoolAttr ==
    [NoAttr EXCEPT !.padding = "VALID", !.strides = <<1, 2, 2, 1>>,
                   !.ksize = <<1, 3, 3, 1>>]

\* a kind of operation a graph may hold: its type, its inputs (DATA stands
\* for the tensor it consumes), its outputs, its attributes, and the scope
\* its name lies in
Variant(type, ins, n_out, shape, attr, prefix) ==
    [type |-> type, ins |-> ins, n_out |-> n_out, shape |-> shape,
     attr |-> attr, prefix |-> prefix, value |-> NoValue]

S == <<"s", "/">>

Plain(type, ins) == Variant(type, ins, 1, XShape, NoAttr, S)

Variants ==
    {Plain(t, <<DATA, T0(W)>>) :
        t \in {"BiasAdd", "Add", "Sub", "Mul", "Div", "RealDiv",
               "SquaredDifference", "Pow", "MatMul"}}
    \cup {Plain(t, <<DATA>>) :
        t \in {"Neg", "Abs", "Relu", "Relu6", "Tanh", "Sigmoid", "Squeeze",
               "Identity", "Softmax", "Floor"}}
    \cup {Plain("Mul", <<DATA, DATA>>), Plain("Mul", <<DATA, T0(SCALE)>>),
          Plain("Max", <<DATA, T0(M12)>>), Plain("Min", <<DATA, T0(AX3)>>),
          Plain("Identity", <<T0(H)>>)}
    \cup {Variant("Conv2D", <<DATA, T0(W)>>, 1, XShape, ConvAttr, S),
          Variant("Conv2D", <<DATA, T0(W)>>, 1, XShape, DilatedAttr, S),
          Variant("DepthwiseConv2dNative", <<DATA, T0(W)>>, 1, XShape, ConvAttr, S),
          Variant("Conv2DBackpropInput", <<T0(OSZ), T0(W), DATA>>, 1,
                  <<1, 14, 14, 16>>, ConvAttr, S)}
    \cup {Variant("FusedBatchNorm",
                  <<DATA, T0(GAMMA), T0(BETA), T0(MOVING_MEAN), T0(MOVING_VAR)>>,
                  5, XShape, NoAttr, prefix) :
             prefix \in {<<>>, S, <<"s", "/", "t", "/">>}}
    \cup {Variant(t, <<DATA>>, 1, XShape, PoolAttr, S) : t \in {"AvgPool", "MaxPool"}}
    \cup {Variant("Reshape", <<DATA, shape>>, 1, <<1, 10>>, NoAttr, S) :
             shape \in {T0(SHP), T0(SHP64), T0(SH)}}
    \cup {Variant("Reshape", <<T0(X), DATA>>, 1, <<1, 10>>, NoAttr, S)}
    \cup {Variant("Shape", <<DATA>>, 1, <<4>>, [NoAttr EXCEPT !.dtype = "int32"], S),
          Variant("Placeholder", <<>>, 1, XShape, NoAttr, S),
          [Variant("Const", <<>>, 1, <<2>>, [NoAttr EXCEPT !.dtype = "float32"], S)
              EXCEPT !.value = [dims |-> <<2>>, flat |-> <<-1, 5>>]]}
    \cup {Plain("Transpose", <<DATA, perm>>) : perm \in {T0(PERM_ID), T0(PERM_SW)}}
    \cup {Variant("ResizeBilinear", <<DATA, T0(SIZE)>>, 1, <<1, 14, 14, 16>>,
                  [NoAttr EXCEPT !.align_corners = TRUE], S)}
    \cup {Plain(t, <<DATA, T0(BLK), T0(CROPS)>>) :
             t \in {"SpaceToBatchND", "BatchToSpaceND"}}
    \cup {Variant(t, <<DATA>>, 1, XShape, [NoAttr EXCEPT !.block_size = 2], S) :
             t \in {"DepthToSpace", "SpaceToDepth"}}
    \cup {Plain("Pad", <<DATA, T0(PADS)>>)}
    \cup {Plain("ConcatV2", <<DATA, DATA, axis>>) :
             axis \in {T0(AX3), T0(AXM1), T0(AX1), T0(AXM4)}}
    \cup {Plain("Mean", <<DATA, dims>>) :
             dims \in {T0(M12), T0(M123), T0(M1), T0(M21), T0(AX3)}}

\* the variants an operation after the first is drawn from: the consumers
\* and the second uses whose conversion depends on what came before
CoreVariants ==
    {Plain("Identity", <<DATA>>), Plain("Identity", <<T0(H)>>),
     Plain("Mul", <<DATA, T0(SCALE)>>), Plain("Max", <<DATA, T0(M12)>>),
     Plain("Mean", <<DATA, T0(M12)>>),
     Plain("ConcatV2", <<DATA, DATA, T0(AX3)>>),
     Plain("ConcatV2", <<DATA, DATA, T0(AX1)>>),
     Plain("Floor", <<DATA>>),
     Variant("FusedBatchNorm",
             <<DATA, T0(GAMMA), T0(BETA), T0(MOVING_MEAN), T0(MOVING_VAR)>>,
             5, XShape, NoAttr, S),
     Variant("Reshape", <<DATA, T0(SHP)>>, 1, <<1, 10>>, NoAttr, S),
     Variant("Reshape", <<T0(X), DATA>>, 1, <<1, 10>>, NoAttr, S)}

Letters == <<"a", "b", "c", "d", "e">>

\* the operation of variant v at position p that consumes tensor d
MkOp(v, p, d) ==
    [TfOp(v.prefix \o <<Letters[p]>>, v.type,
          [k \in 1..Len(v.ins) |-> IF v.ins[k] = DATA THEN d ELSE v.ins[k]],
          v.n_out, v.shape, v.attr)
        EXCEPT !.value = v.value]

\* the tensors the next operation may consume: outputs 0 and 1 of the last one
DataChoices(body) ==
    IF body = <<>> THEN {T0(X)}
    ELSE LET last == body[Len(body)]
         IN  {last.outputs[k].name : k \in 1..MinOf(2, Len(last.outputs))}

RECURSIVE Bodies(_)
Bodies(n) ==
    IF n = 0 THEN {<<>>}
    ELSE UNION {{Append(b, MkOp(v, n, d)) :
                    v \in (IF n = 1 THEN Variants ELSE CoreVariants),
                    d \in DataChoices(b)} :
                   b \in Bodies(n - 1)}

\* the Placeholder, the catalogue's producers the body reads, then the body
Graph(body) ==
    LET used == UNION {{b.inputs[k] : k \in 1..Len(b.inputs)} :
                          b \in {body[j] : j \in 1..Len(body)}}
    IN  <<TfOp(X, "Placeholder", <<>>, 1, XShape, NoAttr)>>
        \o SelectSeq(Catalog, LAMBDA c : c.outputs[1].name \in used)
        \o body

\* the declared graph inputs and outputs: the Placeholder is an input, and
\* either the first operation is one too and the last is the output, or the
\* first operation is the output
Options(body) ==
    IF body = <<>> THEN {[input_nodes |-> {X}, output_nodes |-> {}]}
    ELSE LET first == body[1].name
             last == body[Len(body)].name
         IN  {[input_nodes |-> {X, first}, output_nodes |-> {last}],
              [input_nodes |-> {X}, output_nodes |-> {first}]}

----------------------------------------------------------------------------
(* The state machine *)

\* __init__ has run: an empty NetDef and skip set; run() is about to start
Init ==
    /\ \E n \in 0..MaxOps : \E body \in Bodies(n) :
          /\ tf_graph = Graph(body)
          /\ option \in Options(body)
    /\ mace_net_def = EmptyNetDef
    /\ skip_tensor = {}
    /\ evaluated = {}
    /\ pc = "ops"
    /\ idx = 1
    /\ error = ""
    /\ returned = <<>>
    /\ converters = 1

\* convert_ops: one operation is looked up and converted
ConvertOp ==
    /\ pc = "ops"
    /\ idx <= Len(tf_graph)
    /\ LET st == convert_one(tf_graph, tf_graph[idx],
                             ConvState(mace_net_def, skip_tensor, evaluated))
       IN  /\ mace_net_def' = st.net
           /\ skip_tensor' = st.skip
           /\ evaluated' = st.ev
           /\ error' = st.err
           /\ pc' = IF st.err = "" THEN "ops" ELSE "failed"
           /\ idx' = IF st.err = "" THEN idx + 1 ELSE idx
    /\ UNCHANGED <<tf_graph, option, returned, converters>>

\* convert_ops: the loop is over, convert_tensors runs
ConvertTensors ==
    /\ pc = "ops"
    /\ idx = Len(tf_graph) + 1
    /\ LET st == convert_tensors(tf_graph,
                                 ConvState(mace_net_def, skip_tensor, evaluated))
       IN  /\ mace_net_def' = st.net
           /\ error' = st.err
           /\ pc' = IF st.err = "" THEN "rewrite" ELSE "failed"
    /\ UNCHANGED <<tf_graph, option, skip_tensor, evaluated, idx, returned, converters>>

\* run(): the names are rewritten and the NetDef is returned
ReplaceAndReturn ==
    /\ pc = "rewrite"
    /\ mace_net_def' = replace_input_output_tensor_name(mace_net_def, option)
    /\ returned' = Append(returned, mace_net_def')
    /\ pc' = "done"
    /\ UNCHANGED <<tf_graph, option, skip_tensor, evaluated, idx, error, converters>>

\* run() is called again on the same converter
RunAgain ==
    /\ pc = "done"
    /\ Len(returned) < MaxRuns
    /\ pc' = "ops"
    /\ idx' = 1
    /\ UNCHANGED <<tf_graph, option, mace_net_def, skip_tensor, evaluated,
                   error, returned, converters>>

\* a new converter is made of the same model file and option, and run
NewConverter ==
    /\ pc = "done"
    /\ Len(returned) < MaxRuns
    /\ mace_net_def' = EmptyNetDef
    /\ skip_tensor' = {}
    /\ evaluated' = {}
    /\ pc' = "ops"
    /\ idx' = 1
    /\ converters' = converters + 1
    /\ UNCHANGED <<tf_graph, option, error, returned>>

Next == ConvertOp \/ ConvertTensors \/ ReplaceAndReturn \/ RunAgain \/ NewConverter

Spec == Init /\ [][Next]_vars

----------------------------------------------------------------------------
(* Properties *)

net == mace_net_def

\* the operation convert_ops is about to convert has this type
Converting(type) ==
    pc = "ops" /\ idx <= Len(tf_graph) /\ tf_graph[idx].type = type

\* the first call of run() has returned and no second one has started
FirstRunDone == pc = "done" /\ Len(returned) = 1

EndsInColonZero(e) == Len(e) >= 2 /\ e[Len(e) - 1] = ":" /\ e[Len(e)] = "0"

NodeOf(e) == SubSeq(e, 1, Len(e) - 2)

HasSlash(name) == \E k \in 1..Len(name) : name[k] = "/"

ConstOps == {k \in 1..Len(tf_graph) : tf_graph[k].type = "Const"}

TensorsNamed(e) == {t \in 1..Len(net.tensors) : net.tensors[t].name = e}

\* C1: after a successful pass every input name of every operator of the
\* returned net is an output name of some operator of the net, the name of a
\* tensor of the net, or a declared graph input or output name.
C1_NoDanglingReferences ==
    pc = "done" =>
        \A k \in 1..Len(net.op) : \A j \in 1..Len(net.op[k].input) :
            LET e == net.op[k].input[j]
            IN  \/ \E k2 \in 1..Len(net.op) : \E j2 \in 1..Len(net.op[k2].output) :
                      net.op[k2].output[j2] = e
                \/ TensorsNamed(e) # {}
                \/ e \in option.input_nodes \cup option.output_nodes

\* C2: after a successful pass, for every Const node with output e: e is in
\* the skip set exactly when a converter evaluated e; if e is not in the skip
\* set the net holds exactly one tensor named e, and if it is, none.
C2_SkipSetAndEmission ==
    FirstRunDone =>
        \A k \in ConstOps :
            LET e == tf_graph[k].outputs[1].name
            IN  /\ (e \in skip_tensor) <=> (e \in evaluated)
                /\ e \notin skip_tensor => Cardinality(TensorsNamed(e)) = 1
                /\ e \in skip_tensor => TensorsNamed(e) = {}

\* the first part of C2 alone, and the emission of a constant whose name no
\* FusedBatchNorm of the graph synthesizes
SkipSetIsEvaluatedSet ==
    FirstRunDone =>
        \A k \in ConstOps :
            LET e == tf_graph[k].outputs[1].name
            IN  /\ (e \in skip_tensor) <=> (e \in evaluated)
                /\ (\A j \in 1..Len(tf_graph) :
                       tf_graph[j].type = "FusedBatchNorm" => e # T0(SCALE))
                   => Cardinality(TensorsNamed(e)) =
                          (IF e \in skip_tensor THEN 0 ELSE 1)

----------------------------------------------------------------------------
\* the values of a constant tensor, as the graph holds them
ValuesOf(t) == ProducerOf(tf_graph, t).value.flat

IsAscending(s) == \A k \in 1..(Len(s) - 1) : s[k] <= s[k + 1]

\* operation k of the graph is one the pass stops at
HardFailure(k) ==
    LET o == tf_graph[k]
    IN  \/ o.type \notin op_converter_keys
        \/ o.type = "Transpose" /\ ~IsAscending(ValuesOf(o.inputs[2]))
        \/ o.type = "ConcatV2"
           /\ ValuesOf(o.inputs[Len(o.inputs)])[1] \notin {3, -1}
        \/ o.type = "Mean"
           /\ LET axes == ValuesOf(o.inputs[2])
              IN  ~(Len(axes) >= 2 /\ axes[1] = 1 /\ axes[2] = 2)

HasHardFailure == \E k \in 1..Len(tf_graph) : HardFailure(k)

FirstHardFailure ==
    CHOOSE k \in 1..Len(tf_graph) :
        HardFailure(k) /\ \A j \in 1..(k - 1) : ~HardFailure(j)

\* every operation converted, a constant of another dtype than float32 and
\* int32 is left to emit
HasEmissionFailure ==
    /\ ~HasHardFailure
    /\ idx = Len(tf_graph) + 1
    /\ \E k \in ConstOps :
          /\ tf_graph[k].attr.dtype \notin {"float32", "int32"}
          /\ tf_graph[k].outputs[1].name \notin skip_tensor

\* C3: when the graph holds an operation of an unsupported type or one that
\* fails its validation, the pass stops at the first such operation: no later
\* operation is converted, neither convert_tensors nor the rewriting runs, and
\* no net is returned; a constant of an unsupported dtype stops the pass in
\* convert_tensors, and no net is returned either.
C3_AllOrNothing ==
    /\ HasHardFailure =>
          /\ returned = <<>>
          /\ pc \in {"ops", "failed"}
          /\ idx <= FirstHardFailure
          /\ pc = "failed" => idx = FirstHardFailure /\ error # ""
          /\ \A k \in 1..Len(net.op) :
                \E j \in 1..FirstHardFailure : net.op[k].name = tf_graph[j].name
    /\ HasEmissionFailure => returned = <<>> /\ pc \in {"ops", "failed"}

\* C3 witness: a pass stopped at its second operation, the first one converted
C3_Witness ==
    /\ pc = "failed"
    /\ HasHardFailure
    /\ Len(net.op) >= 1
    /\ idx < Len(tf_graph)

----------------------------------------------------------------------------
\* the name up to its last slash, for a name that has one
BeforeLastSlash(name) ==
    CHOOSE p \in {SubSeq(name, 1, k) : k \in 0..(Len(name) - 1)} :
        /\ name[Len(p) + 1] = "/"
        /\ \A j \in (Len(p) + 2)..Len(name) : name[j] # "/"

\* the name with its final slash-delimited segment removed: nothing is left
\* of a name that has no slash
FinalSegmentRemoved(name) ==
    IF HasSlash(name) THEN BeforeLastSlash(name) ELSE <<>>

\* the final segment removed from a name with a slash, else the whole name
ScopeOrWholeName(name) ==
    IF HasSlash(name) THEN BeforeLastSlash(name) ELSE name

ScaleSuffix == <<"/", "s", "c", "a", "l", "e", ":", "0">>
OffsetSuffix == <<"/", "o", "f", "f", "s", "e", "t", ":", "0">>

\* the constant inputs of the FusedBatchNorm operations of the graph
FoldedInputs ==
    UNION {{tf_graph[k].inputs[j] : j \in 2..5} :
              k \in {k \in 1..Len(tf_graph) : tf_graph[k].type = "FusedBatchNorm"}}

\* the step that converts a FusedBatchNorm adds one FoldedBatchNorm operator
\* with inputs [input 0, <scope>/scale:0, <scope>/offset:0] and the first
\* output only, adds two tensors of these names, and puts the four constant
\* inputs in the skip set; the step that emits the constants emits none of them
FusedBatchNormStep(ScopeOf(_)) ==
    /\ Converting("FusedBatchNorm") =>
          LET t == tf_graph[idx]
              scale_name == ScopeOf(t.name) \o ScaleSuffix
              offset_name == ScopeOf(t.name) \o OffsetSuffix
              n == Len(net.op)
              m == Len(net.tensors)
          IN  /\ pc' = "ops"
              /\ Len(net'.op) = n + 1
              /\ SubSeq(net'.op, 1, n) = net.op
              /\ net'.op[n + 1].name = t.name
              /\ net'.op[n + 1].type = "FoldedBatchNorm"
              /\ net'.op[n + 1].input = <<t.inputs[1], scale_name, offset_name>>
              /\ net'.op[n + 1].output = <<t.outputs[1].name>>
              /\ Len(net'.tensors) = m + 2
              /\ SubSeq(net'.tensors, 1, m) = net.tensors
              /\ net'.tensors[m + 1].name = scale_name
              /\ net'.tensors[m + 2].name = offset_name
              /\ {t.inputs[j] : j \in 2..5} \subseteq skip_tensor'
    /\ (pc = "ops" /\ idx = Len(tf_graph) + 1) =>
          \A j \in (Len(net.tensors) + 1)..Len(net'.tensors) :
              net'.tensors[j].name \notin FoldedInputs

\* C4 as stated: <scope> is the operation's name with its final
\* slash-delimited segment removed, for every name.
C4_ScopeIsNameWithoutFinalSegment == [][FusedBatchNormStep(FinalSegmentRemoved)]_vars

\* C4, amended: converting a FusedBatchNorm yields one FoldedBatchNorm operator
\* with inputs [input 0, <scope>/scale:0, <scope>/offset:0] and the first
\* output, two new tensors of these names, and the four constant inputs in the
\* skip set, none of them emitted; <scope> is the operation's name with its
\* final segment removed when the name has a slash, and the whole name when
\* it has none.
C4_FusedBatchNormFold == [][FusedBatchNormStep(ScopeOrWholeName)]_vars

\* C4 witness: a FusedBatchNorm whose name has no slash was folded, and the
\* pass returned
C4_Witness ==
    /\ FirstRunDone
    /\ \E k \in 1..Len(net.op) :
          /\ net.op[k].type = "FoldedBatchNorm"
          /\ ~HasSlash(net.op[k].name)
          /\ net.op[k].input[2] = net.op[k].name \o ScaleSuffix
    /\ Len(net.tensors) >= 2

----------------------------------------------------------------------------
Declared == option.input_nodes \cup option.output_nodes

\* an input name after the rewriting, given the name before it
InputRewritten(old, new) ==
    IF EndsInColonZero(old) /\ NodeOf(old) \in Declared
    THEN new = NodeOf(old)
    ELSE new = old

\* an output name after the rewriting, given the name before it
OutputRewritten(old, new) ==
    IF EndsInColonZero(old) /\ NodeOf(old) \in option.output_nodes
    THEN new = NodeOf(old)
    ELSE new = old

\* C5: the rewriting turns an input "<node>:0" into "<node>" exactly when
\* <node> is a declared graph input or output, an output "<node>:0" into
\* "<node>" exactly when <node> is a declared graph output, and changes
\* nothing else: the other names, the operators' names, types, arguments and
\* output shapes, the tensors, the lengths and the order.
C5_RewriterChangesOnlyBoundaryNames ==
    [][pc = "rewrite" =>
        /\ net'.tensors = net.tensors
        /\ Len(net'.op) = Len(net.op)
        /\ \A k \in 1..Len(net.op) :
              LET old == net.op[k]
                  new == net'.op[k]
              IN  /\ new.name = old.name
                  /\ new.type = old.type
                  /\ new.arg = old.arg
                  /\ new.output_shape = old.output_shape
                  /\ Len(new.input) = Len(old.input)
                  /\ Len(new.output) = Len(old.output)
                  /\ \A j \in 1..Len(old.input) :
                        InputRewritten(old.input[j], new.input[j])
                  /\ \A j \in 1..Len(old.output) :
                        OutputRewritten(old.output[j], new.output[j])]_vars

\* C5 witness: after the rewriting, an operator reads the bare name of a node
\* declared a graph input only, whose own output kept its ":0", and another
\* output lost it
C5_Witness ==
    /\ FirstRunDone
    /\ \E k1, k2 \in 1..Len(net.op) :
          /\ net.op[k1].name \in option.input_nodes \ option.output_nodes
          /\ net.op[k1].output[1] = T0(net.op[k1].name)
          /\ \E j \in 1..Len(net.op[k2].input) :
                net.op[k2].input[j] = net.op[k1].name
          /\ net.op[k2].output[1] = net.op[k2].name

----------------------------------------------------------------------------
HasArg(op, a) == \E k \in 1..Len(op.arg) : op.arg[k] = a

\* the step added exactly one operator, of this name
AddedOne(name) ==
    /\ Len(net'.op) = Len(net.op) + 1
    /\ SubSeq(net'.op, 1, Len(net.op)) = net.op
    /\ net'.op[Len(net'.op)].name = name

\* elements 1 and 2 of a shape (counted from 0), as far as it has them
ElementsOneToTwo(shape) == [k \in 1..(MinOf(3, Len(shape)) - 1) |-> shape[k + 1]]

\* the Pooling operator a converted Mean is to be
IsGlobalAvgPooling(op, t) ==
    /\ op.type = "Pooling"
    /\ op.input = <<t.inputs[1]>>
    /\ HasArg(op, ArgI("mace_pooling_type_str", PoolingType.AVG))
    /\ HasArg(op, ArgI("mace_padding_str", PaddingMode.VALID))
    /\ HasArg(op, ArgInts("mace_strides_str", <<1, 1>>))
    /\ HasArg(op, ArgInts("mace_kernel_str",
                          ElementsOneToTwo(ShapeOf(tf_graph, t.inputs[1]))))

\* converting a Mean succeeds exactly on the axes Accepted, and then yields
\* the Pooling operator and skips the axes
MeanStep(Accepted(_)) ==
    Converting("Mean") =>
        LET t == tf_graph[idx]
        IN  /\ (pc' = "ops") <=> Accepted(ValuesOf(t.inputs[2]))
            /\ pc' = "ops" =>
                  /\ AddedOne(t.name)
                  /\ IsGlobalAvgPooling(net'.op[Len(net'.op)], t)
                  /\ t.inputs[2] \in skip_tensor'

IsSpatialPair(axes) == axes = <<1, 2>>

StartsWithSpatialPair(axes) == Len(axes) >= 2 /\ axes[1] = 1 /\ axes[2] = 2

\* C6: converting a Mean succeeds if and only if its axes are exactly the
\* spatial pair 1, 2, every other value being a failure; on success it yields
\* one Pooling operator (AVG, VALID, strides [1,1], kernel the elements 1-2 of
\* the first input's shape) that keeps the first input only, and the axes are
\* in the skip set.
C6_MeanOnlyOverSpatialPair == [][MeanStep(IsSpatialPair)]_vars

\* what convert_mean does: it reads the first two axes only
MeanReadsFirstTwoAxes == [][MeanStep(StartsWithSpatialPair)]_vars

----------------------------------------------------------------------------
\* C7: converting a ConcatV2 whose last input has value a succeeds if and only
\* if a is 3 or -1; on success it yields one Concat operator whose inputs are
\* the original ones without the last, in order, with an axis argument of 3,
\* and the axis tensor is in the skip set.
C7_ConcatOnlyOnChannelAxis ==
    [][Converting("ConcatV2") =>
        LET t == tf_graph[idx]
            last == t.inputs[Len(t.inputs)]
            a == ValuesOf(last)[1]
        IN  /\ (pc' = "ops") <=> (a \in {3, -1})
            /\ (IF a < 0 THEN a + 4 ELSE a) = 3 <=> (a \in {3, -1})
            /\ pc' = "ops" =>
                  /\ AddedOne(t.name)
                  /\ net'.op[Len(net'.op)].type = "Concat"
                  /\ net'.op[Len(net'.op)].input = SubSeq(t.inputs, 1, Len(t.inputs) - 1)
                  /\ HasArg(net'.op[Len(net'.op)], ArgI("mace_axis_str", 3))
                  /\ last \in skip_tensor']_vars

\* C7 witness: a ConcatV2 of axis -1 was converted to a Concat of axis 3
C7_Witness ==
    \E k \in 1..Len(tf_graph) : \E j \in 1..Len(net.op) :
        /\ tf_graph[k].type = "ConcatV2"
        /\ ValuesOf(tf_graph[k].inputs[3])[1] = -1
        /\ net.op[j].name = tf_graph[k].name
        /\ net.op[j].type = "Concat"
        /\ HasArg(net.op[j], ArgI("mace_axis_str", 3))
        /\ Len(net.op[j].input) = 2
        /\ tf_graph[k].inputs[3] \in skip_tensor
        /\ pc = "ops"

----------------------------------------------------------------------------
MinusOneToOne(values) ==
    [k \in 1..Len(values) |-> IF values[k] = -1 THEN 1 ELSE values[k]]

\* C8: converting a Reshape always yields one Reshape operator that keeps the
\* first input only; when a Const produces the second input, the shape
\* argument is its values with every -1 replaced by 1 and the constant is put
\* in the skip set; when a Shape of X produces it, the argument is the static
\* shape of X, nothing is evaluated and the skip set is left as it was.
C8_ReshapeShapeArgument ==
    [][Converting("Reshape") =>
        LET t == tf_graph[idx]
            second == ProducerOf(tf_graph, t.inputs[2])
            new == net'.op[Len(net'.op)]
        IN  /\ pc' = "ops"
            /\ AddedOne(t.name)
            /\ new.type = "Reshape"
            /\ new.input = <<t.inputs[1]>>
            /\ second.type = "Const" =>
                  /\ HasArg(new, ArgInts("mace_shape_str",
                                         MinusOneToOne(second.value.flat)))
                  /\ skip_tensor' = skip_tensor \cup {t.inputs[2]}
            /\ second.type = "Shape" =>
                  /\ HasArg(new, ArgInts("mace_shape_str",
                                         ShapeOf(tf_graph, second.inputs[1])))
                  /\ skip_tensor' = skip_tensor
                  /\ evaluated' = evaluated]_vars

\* C8 witness: a Reshape to the constant [-1, 10] was converted with the
\* argument [1, 10] and the constant skipped
C8_Witness ==
    \E j \in 1..Len(net.op) :
        /\ net.op[j].type = "Reshape"
        /\ net.op[j].input = <<T0(X)>>
        /\ HasArg(net.op[j], ArgInts("mace_shape_str", <<1, 10>>))
        /\ T0(SHP) \in skip_tensor
        /\ pc = "ops"

----------------------------------------------------------------------------
\* the operator type documented for a source type
DocumentedType(type) ==
    CASE type = "Conv2D" -> "Conv2D"
      [] type = "DepthwiseConv2dNative" -> "DepthwiseConv2d"
      [] type = "Conv2DBackpropInput" -> "Deconv2D"
      [] type \in {"Add", "Sub", "Mul", "Div", "Min", "Max", "Neg", "Abs",
                   "RealDiv", "SquaredDifference", "Pow"} -> "Eltwise"
      [] type = "BiasAdd" -> "BiasAdd"
      [] type \in {"Relu", "Relu6", "Tanh", "Sigmoid"} -> "Activation"
      [] type = "FusedBatchNorm" -> "FoldedBatchNorm"
      [] type \in {"AvgPool", "MaxPool", "Mean"} -> "Pooling"
      [] type \in {"Squeeze", "Identity", "Transpose"} -> "Identity"
      [] type = "MatMul" -> "MatMul"
      [] type = "Softmax" -> "Softmax"
      [] type = "Reshape" -> "Reshape"
      [] type = "ResizeBilinear" -> "ResizeBilinear"
      [] type = "SpaceToBatchND" -> "SpaceToBatchND"
      [] type = "BatchToSpaceND" -> "BatchToSpaceND"
      [] type = "DepthToSpace" -> "DepthToSpace"
      [] type = "SpaceToDepth" -> "SpaceToDepth"
      [] type = "Pad" -> "Pad"
      [] type = "ConcatV2" -> "Concat"
      [] type \in {"Shape", "Placeholder", "Const"} -> "(none)"

\* the graph is one operation, the last, and the producers of its inputs
SingleOpGraph ==
    \A k \in 1..(Len(tf_graph) - 1) :
        tf_graph[k].type \in {"Placeholder", "Const", "Shape"}

TheOp == tf_graph[Len(tf_graph)]

\* C9 as stated: the conversion of a graph of one operation of any type of
\* the dispatch table yields exactly one operator, of the documented type.
C9_EverySingleOpYieldsOneOperator ==
    (FirstRunDone /\ SingleOpGraph) =>
        /\ Len(net.op) = 1
        /\ net.op[1].type = DocumentedType(TheOp.type)

\* C9, amended: the conversion of a graph of one operation of a type of the
\* dispatch table other than Shape, Placeholder and Const yields exactly one
\* operator, of the documented type; a Shape, a Placeholder or a Const yields
\* no operator.
C9_SingleOpYieldsItsMappedOperator ==
    (FirstRunDone /\ SingleOpGraph) =>
        IF TheOp.type \in {"Shape", "Placeholder", "Const"}
        THEN net.op = <<>>
        ELSE /\ Len(net.op) = 1
             /\ net.op[1].type = DocumentedType(TheOp.type)
             /\ net.op[1].name = TheOp.name

\* C9 witness: a graph of one Squeeze was converted to one Identity
C9_Witness ==
    /\ FirstRunDone
    /\ SingleOpGraph
    /\ TheOp.type = "Squeeze"
    /\ Len(net.op) = 1
    /\ net.op[1].type = "Identity"

----------------------------------------------------------------------------
\* C10: a second run on the same graph and option returns the same operators
\* and the same tensors as the first, nothing of the first run being carried
\* over.
C10_SecondRunReturnsTheSame ==
    Len(returned) >= 2 => returned[2] = returned[1]

\* what holds of the code: a run of a new converter returns what the first
\* converter's first run returned
NewConverterReturnsTheSame ==
    (Len(returned) = 2 /\ converters = 2) => returned[2] = returned[1]

----------------------------------------------------------------------------
\* the names of the operations of the graph are pairwise distinct
OpNamesDistinct ==
    \A j, k \in 1..Len(tf_graph) :
        tf_graph[j].name = tf_graph[k].name => j = k

FusedBatchNormOps ==
    {k \in 1..Len(tf_graph) : tf_graph[k].type = "FusedBatchNorm"}

\* C11: after a successful pass over a graph whose operation names are
\* pairwise distinct, the names of the tensors of the net are pairwise
\* distinct: no two folded FusedBatchNorms synthesize the same name, and no
\* synthesized name is the name of an emitted Const.
C11_TensorNamesDistinct ==
    (FirstRunDone /\ OpNamesDistinct) =>
        \A i, j \in 1..Len(net.tensors) :
            net.tensors[i].name = net.tensors[j].name => i = j

\* what holds of the code: the names are pairwise distinct when the graph has
\* no FusedBatchNorm, every tensor then being the one emitted Const
TensorNamesDistinctWithoutFold ==
    (FirstRunDone /\ OpNamesDistinct /\ FusedBatchNormOps = {}) =>
        \A i, j \in 1..Len(net.tensors) :
            net.tensors[i].name = net.tensors[j].name => i = j

\* the first way C11 fails: two FusedBatchNorms of one scope were folded and
\* the net holds their scale tensors under one name
TwoFoldsShareAName ==
    /\ FirstRunDone /\ OpNamesDistinct
    /\ Cardinality(FusedBatchNormOps) = 2
    /\ \E k \in FusedBatchNormOps :
           Cardinality(TensorsNamed(get_scope(tf_graph[k].name) \o ScaleSuffix)) = 2

\* the second way: one FusedBatchNorm was folded and its scale tensor has the
\* name of a Const the graph keeps, which was emitted too
FoldCollidesWithConst ==
    /\ FirstRunDone /\ OpNamesDistinct
    /\ Cardinality(FusedBatchNormOps) = 1
    /\ \E k \in FusedBatchNormOps : \E c \in ConstOps :
           LET e == tf_graph[c].outputs[1].name
           IN  /\ e = get_scope(tf_graph[k].name) \o ScaleSuffix
               /\ e \notin skip_tensor
               /\ Cardinality(TensorsNamed(e)) = 2

====
